---- MODULE Spec2Model ----
(***************************************************************************)
(* PySearchZips: the scan-and-merge indexing pipeline.                     *)
(*                                                                         *)
(* Spec    : one sequential run followed by one parallel run over the same *)
(*           filesystem content, each into its own empty canonical store,  *)
(*           for both implementations of the orchestrator                  *)
(*           (drive_processor.py and zip_scanner.py).                      *)
(* SpecApi : direct use of the store interface (insert_zip_data,           *)
(*           merge_databases) on a canonical store and two source stores.  *)
(* SpecSearch : search_files on a store of entries with spelled-out names. *)
(* SpecThreads : several threads calling one shared DatabaseManager.       *)
(***************************************************************************)
EXTENDS Integers, Sequences, FiniteSets, TLC

\* ------------------------------------------------------------------ bounds
MaxDrives == 2
MaxZips == 2
MaxCalls == 3
MaxName == 2
MaxThreads == 2
MaxEntries == 3
MaxTime == 4

\* -------------------------------------------------------------- filesystem
\* Volume roots, as the strings handed to process_all_drives.
Volumes == { <<"C", ":">>, <<"/", "m">> }

\* The archive files that may sit on a volume.
ZipNames == {"vid", "mix", "txt", "bad", "err"}

NoEntries == << >>

\* zipfile.ZipFile(zip_path).infolist() of each archive; "bad" has invalid
\* container bytes (BadZipFile), "err" makes zipfile raise an exception that
\* is none of BadZipFile, PermissionError, OSError.
InfoList(name) ==
    CASE name = "vid" -> << [filename |-> "a", ext |-> ".mp4", file_size |-> 3, is_dir |-> FALSE],
                            [filename |-> "b", ext |-> ".MKV", file_size |-> 5, is_dir |-> FALSE] >>
      [] name = "mix" -> << [filename |-> "d", ext |-> "", file_size |-> 0, is_dir |-> TRUE],
                            [filename |-> "c", ext |-> ".txt", file_size |-> 1, is_dir |-> FALSE],
                            [filename |-> "e", ext |-> ".avi", file_size |-> 7, is_dir |-> FALSE] >>
      [] name = "txt" -> << [filename |-> "f", ext |-> ".txt", file_size |-> 2, is_dir |-> FALSE] >>
      [] OTHER -> NoEntries

OpenOutcome(name) ==
    CASE name = "bad" -> "BadZipFile"
      [] name = "err" -> "Exception"
      [] OTHER -> "ok"

video_extensions ==
    {".mp4", ".avi", ".mov", ".mkv", ".wmv", ".flv", ".webm", ".m4v",
     ".3gp", ".3g2", ".asf", ".divx", ".f4v", ".m2ts", ".mts", ".ogv",
     ".rm", ".rmvb", ".vob", ".xvid", ".mpg", ".mpeg", ".m1v", ".m2v"}

Lower(ext) ==
    CASE ext = ".MKV" -> ".mkv"
      [] ext = ".MP4" -> ".mp4"
      [] OTHER -> ext

\* is_target_file without its all_files branch.
is_target_file_VideoOnly(info, all_files) == Lower(info.ext) \in video_extensions

is_target_file(info, all_files) ==
    IF all_files THEN TRUE ELSE Lower(info.ext) \in video_extensions

RECURSIVE TargetFiles(_, _)
TargetFiles(infos, all_files) ==
    IF infos = << >> THEN << >>
    ELSE LET info == Head(infos)
             rest == TargetFiles(Tail(infos), all_files)
         IN  IF ~info.is_dir /\ is_target_file(info, all_files)
             THEN << [file_name |-> info.filename, file_size |-> info.file_size] >> \o rest
             ELSE rest

\* scan_zip_for_videos without BadZipFile in its except clause.
scan_zip_for_videos_NoExcept(zip_path, all_files) ==
    LET out == OpenOutcome(zip_path.name)
    IN  IF out \in {"BadZipFile", "Exception"} THEN [raised |-> TRUE, files |-> << >>]
        ELSE [raised |-> FALSE, files |-> TargetFiles(InfoList(zip_path.name), all_files)]

\* scan_zip_for_videos: the entry sequence, or the exception that escapes it.
scan_zip_for_videos(zip_path, all_files) ==
    LET out == OpenOutcome(zip_path.name)
    IN  IF out = "BadZipFile" THEN [raised |-> FALSE, files |-> << >>]
        ELSE IF out = "Exception" THEN [raised |-> TRUE, files |-> << >>]
        ELSE [raised |-> FALSE, files |-> TargetFiles(InfoList(zip_path.name), all_files)]

\* ------------------------------------------------------------------ stores
EmptyDb == [zip_files |-> << >>, file_contents |-> << >>]

RECURSIVE SumSizes(_)
SumSizes(rows) ==
    IF rows = << >> THEN 0 ELSE Head(rows).file_size + SumSizes(Tail(rows))

\* get_database_summary: container count, entry count, total byte sum.
Summary(db) ==
    [zip_files |-> Len(db.zip_files),
     video_files |-> Len(db.file_contents),
     total_size |-> SumSizes(db.file_contents)]

\* zip_files with UNIQUE on zip_file_name, the column above zip_file_path.
UniqueViolated_FileName(db, zip_path, zip_uuid) ==
    \E k \in 1..Len(db.zip_files) :
        \/ db.zip_files[k].zip_file_path.name = zip_path.name
        \/ db.zip_files[k].uuid = zip_uuid

\* zip_files with no UNIQUE constraint at all.
UniqueViolated_None(db, zip_path, zip_uuid) == FALSE

\* zip_files with UNIQUE on uuid only.
UniqueViolated_UuidOnly(db, zip_path, zip_uuid) ==
    \E k \in 1..Len(db.zip_files) : db.zip_files[k].uuid = zip_uuid

\* The UNIQUE constraints of zip_files: zip_file_path and uuid.
UniqueViolated(db, zip_path, zip_uuid) ==
    \E k \in 1..Len(db.zip_files) :
        \/ db.zip_files[k].zip_file_path = zip_path
        \/ db.zip_files[k].uuid = zip_uuid

RECURSIVE SplitColon(_)
SplitColon(s) ==
    IF s = << >> \/ Head(s) = ":" THEN << >> ELSE <<Head(s)>> \o SplitColon(Tail(s))

\* get_drive_letter on a path of this volume: path.split(':')[0] + ':' for a
\* drive-letter root, the first non-root part for a Unix root.
get_drive_letter(zip_path) ==
    LET v == zip_path.vol
    IN  IF \E k \in 1..Len(v) : v[k] = ":"
        THEN SplitColon(v) \o <<":">>
        ELSE SelectSeq(v, LAMBDA c : c # "/")

\* The entry rows keyed by a second uuid4() instead of the container's.
EntryRows_OtherUuid(zip_uuid, video_files) ==
    [k \in 1..Len(video_files) |->
        [zip_uuid |-> [mgr |-> zip_uuid.mgr, n |-> zip_uuid.n + 1],
         file_name |-> video_files[k].file_name,
         file_size |-> video_files[k].file_size]]

\* The file_contents rows of one container: zip_uuid is the container's uuid.
EntryRows(zip_uuid, video_files) ==
    [k \in 1..Len(video_files) |->
        [zip_uuid |-> zip_uuid,
         file_name |-> video_files[k].file_name,
         file_size |-> video_files[k].file_size]]

\* insert_zip_data without its early return on an empty list.
insert_zip_data_NoGuard(db, zip_path, video_files, drive_letter, zip_uuid) ==
    IF UniqueViolated(db, zip_path, zip_uuid)
    THEN [db |-> db, ret |-> "IntegrityError"]
    ELSE [db |-> [zip_files |-> Append(db.zip_files,
                      [drive_letter |-> drive_letter, zip_file_path |-> zip_path, uuid |-> zip_uuid]),
                  file_contents |-> db.file_contents \o EntryRows(zip_uuid, video_files)],
          ret |-> "uuid"]

\* insert_zip_data with INSERT OR IGNORE for the container row: the entry rows
\* are inserted all the same.
insert_zip_data_OrIgnore(db, zip_path, video_files, drive_letter, zip_uuid) ==
    IF video_files = << >> THEN [db |-> db, ret |-> "None"]
    ELSE [db |-> [zip_files |-> IF UniqueViolated(db, zip_path, zip_uuid)
                                THEN db.zip_files
                                ELSE Append(db.zip_files,
                                         [drive_letter |-> drive_letter,
                                          zip_file_path |-> zip_path, uuid |-> zip_uuid]),
                  file_contents |-> db.file_contents \o EntryRows(zip_uuid, video_files)],
          ret |-> "uuid"]

insert_zip_data(db, zip_path, video_files, drive_letter, zip_uuid) ==
    IF video_files = << >> THEN [db |-> db, ret |-> "None"]
    ELSE IF UniqueViolated(db, zip_path, zip_uuid)
    THEN [db |-> db, ret |-> "IntegrityError"]
    ELSE [db |-> [zip_files |-> Append(db.zip_files,
                      [drive_letter |-> drive_letter, zip_file_path |-> zip_path, uuid |-> zip_uuid]),
                  file_contents |-> db.file_contents \o EntryRows(zip_uuid, video_files)],
          ret |-> "uuid"]

\* ------------------------------------------------------------------- state
VARIABLES
    fs,              \* volume -> the archive names found on it, in listing order
    access,          \* volume -> "ok", or the error that listing its root raises
    drives,          \* the volume list handed to the run
    impl,            \* "processor" (drive_processor.py) or "app" (zip_scanner.py)
    all_files_mode,  \* config scan_all_files
    files,           \* database path -> contents of the store file at that path
    writers,         \* database path -> the threads that have written the file
    pc,              \* position of the orchestrator
    seqIdx,          \* sequential run: index of the next volume
    seqResults,      \* sequential run: one result per processed volume
    seqTotals,       \* sequential run: the totals it returned
    temp_db_files,   \* parallel run: worker index -> worker-store path
    wpc,             \* parallel run: position of each worker
    wIdx,            \* parallel run: index of each worker's next archive
    wTot,            \* parallel run: each worker's running totals
    wRes,            \* parallel run: what each worker's future holds
    wOpen,           \* parallel run: worker-store connection still open
    collected,       \* parallel run: workers whose futures were collected
    drive_results,   \* parallel run: volume -> collected result
    thread_db_files, \* parallel run: worker stores handed to merge
    mIdx,            \* parallel run: number of worker stores merged
    mRow,            \* parallel run: next container of the store being merged
    txn,             \* parallel run: the canonical store inside the merge transaction
    failures,        \* parallel run: container paths merge rejected
    parTotals,       \* parallel run: the totals it returned
    calls,           \* store interface: number of calls made
    lastCall,        \* store interface: the last call and what it returned
    tpc,             \* shared manager: position of each thread inside insert_zip_data
    tRes,            \* shared manager: what each thread's calls returned
    zipScan          \* container scan: the call of scan_zip_for_videos in progress

vars == <<fs, access, drives, impl, all_files_mode, files, writers, pc, seqIdx, seqResults,
          seqTotals, temp_db_files, wpc, wIdx, wTot, wRes, wOpen, collected,
          drive_results, thread_db_files, mIdx, mRow, txn, failures, parTotals, calls, lastCall, tpc, tRes,
          zipScan>>

\* What no run and no store call changes: the content handed to it, the
\* configuration, and a container scan made on its own.
fsVars == <<fs, access, drives, impl, all_files_mode, zipScan>>
inputVars == <<fs, access, drives, impl, all_files_mode>>
seqVars == <<seqIdx, seqResults, seqTotals>>
workerVars == <<wpc, wIdx, wTot, wRes, wOpen>>
threadVars == <<tpc, tRes>>
apiVars == <<calls, lastCall, threadVars>>

\* ------------------------------------------------------------------- paths
\* The two canonical stores: the sequential run's and the parallel run's.
SeqDbPath == [db |-> "seq", tmp |-> FALSE, thread |-> 0, drive |-> << >>]
MainDbPath == [db |-> "main", tmp |-> FALSE, thread |-> 0, drive |-> << >>]

\* drive.replace('/', '_').replace(':', '_')
Sanitize(drive) ==
    [k \in 1..Len(drive) |-> IF drive[k] \in {"/", ":"} THEN "_" ELSE drive[k]]

\* The temporary path without the worker's index in it.
TempDbPath_NoIndex(i, drive) ==
    [db |-> MainDbPath.db, tmp |-> TRUE, thread |-> 0, drive |-> Sanitize(drive)]

\* f"{main_db.database_path}.thread_{i}_{...}.tmp", i counted from 0
TempDbPath(i, drive) ==
    [db |-> MainDbPath.db, tmp |-> TRUE, thread |-> i - 1, drive |-> Sanitize(drive)]

ZipPath(drive, name) == [vol |-> drive, name |-> name]

\* The errors of listing a volume's root that find_google_takeout_folders and
\* find_all_zip_files_on_drive catch and log.
CaughtAccessErrors == {"PermissionError", "FileNotFoundError"}

\* find_zip_files_for_drive: a volume whose root cannot be listed gives the
\* empty list, like a volume without archives.
find_zip_files_for_drive(drive) ==
    IF access[drive] \in CaughtAccessErrors
    THEN << >>
    ELSE [k \in 1..Len(fs[drive]) |-> ZipPath(drive, fs[drive][k])]

\* os.path.exists
Exists(path) == path \in DOMAIN files

\* Writing db to the file at path (the file is created if absent).
WriteFile(f, path, db) ==
    [p \in DOMAIN f \cup {path} |-> IF p = path THEN db ELSE f[p]]

\* Thread identities: the orchestrator, and worker i for the i-th volume.
Orchestrator == 0

NoteWriter(w, path, who) ==
    [p \in DOMAIN w \cup {path} |-> IF p = path
                                     THEN (IF p \in DOMAIN w THEN w[p] ELSE {}) \cup {who}
                                     ELSE w[p]]

\* --------------------------------------------------------- per-archive step
\* process_zip_file: (zip_count, video_count) and the store after it, or the
\* exception that escapes it.
process_zip_file(db, zip_path, zip_uuid) ==
    LET scan == scan_zip_for_videos(zip_path, all_files_mode)
    IN  IF scan.raised
        THEN [db |-> db, zip_count |-> 0, video_count |-> 0, error |-> "Exception"]
        ELSE IF scan.files # << >>
        THEN LET ins == insert_zip_data(db, zip_path, scan.files,
                                        get_drive_letter(zip_path), zip_uuid)
             IN  IF ins.ret = "IntegrityError"
                 THEN [db |-> ins.db, zip_count |-> 0, video_count |-> 0,
                       error |-> "IntegrityError"]
                 ELSE [db |-> ins.db, zip_count |-> 1, video_count |-> Len(scan.files),
                       error |-> "None"]
        ELSE [db |-> db, zip_count |-> 0, video_count |-> 0, error |-> "None"]

\* The loop over a volume's archives, from archive k on; it stops at the first
\* exception.
RECURSIVE ProcessZips(_, _, _, _, _, _)
ProcessZips(db, zip_files, k, total_zips, total_videos, mgr) ==
    IF k > Len(zip_files)
    THEN [db |-> db, zip_count |-> total_zips, video_count |-> total_videos, error |-> "None"]
    ELSE LET r == process_zip_file(db, zip_files[k], [mgr |-> mgr, n |-> k])
         IN  IF r.error # "None"
             THEN [db |-> r.db, zip_count |-> total_zips, video_count |-> total_videos,
                   error |-> r.error]
             ELSE ProcessZips(r.db, zip_files, k + 1, total_zips + r.zip_count,
                              total_videos + r.video_count, mgr)

\* ------------------------------------------------------------------- Init
RECURSIVE SeqsUpTo(_, _)
SeqsUpTo(S, n) ==
    IF n = 0 THEN { << >> }
    ELSE LET shorter == SeqsUpTo(S, n - 1)
         IN  shorter \cup { Append(s, x) : s \in { t \in shorter : Len(t) = n - 1 }, x \in S }

NoRepeat(s) == \A i, j \in 1..Len(s) : i # j => s[i] # s[j]

Listings == { s \in SeqsUpTo(ZipNames, MaxZips) : NoRepeat(s) }

NoCall == [op |-> "none"]

\* Thread identities of the callers of a shared manager; the thread that
\* constructed it is the main thread.
Threads == 0..MaxThreads
NoResults == [insert |-> "none", read |-> NoCall]

\* No call of scan_zip_for_videos made yet on a new ZipFileScanner.
NoScan ==
    [status |-> "none", now |-> 0, last_heartbeat |-> {}, infos |-> << >>, outcome |-> "ok",
     all_files |-> FALSE, has_sink |-> FALSE, k |-> 1, start_time |-> 0,
     target_files |-> << >>, sink |-> << >>,
     seen |-> [calls |-> 0, first |-> FALSE, mark |-> 0]]

InitRun ==
    /\ seqIdx = 1
    /\ seqResults = << >>
    /\ seqTotals = [zips |-> 0, videos |-> 0]
    /\ temp_db_files = << >>
    /\ wpc = << >>
    /\ wIdx = << >>
    /\ wTot = << >>
    /\ wRes = << >>
    /\ wOpen = << >>
    /\ collected = {}
    /\ drive_results = << >>
    /\ thread_db_files = << >>
    /\ mIdx = 0
    /\ mRow = 1
    /\ txn = EmptyDb
    /\ failures = << >>
    /\ parTotals = [zips |-> 0, videos |-> 0]
    /\ calls = 0
    /\ lastCall = NoCall
    /\ tpc = [t \in Threads |-> "idle"]
    /\ tRes = [t \in Threads |-> NoResults]

\* The content of a volume the run is not handed, or whose root cannot be
\* listed, is never read: it is empty.
Init ==
    /\ drives \in SeqsUpTo(Volumes, MaxDrives)
    /\ access \in { a \in [Volumes -> {"ok"} \cup CaughtAccessErrors] :
                   \A v \in Volumes : (\A k \in 1..Len(drives) : drives[k] # v) => a[v] = "ok" }
    /\ fs \in { f \in [Volumes -> Listings] :
                   \A v \in Volumes :
                       ((\A k \in 1..Len(drives) : drives[k] # v) \/ access[v] # "ok")
                           => f[v] = << >> }
    /\ impl \in {"processor", "app"}
    /\ all_files_mode = FALSE
    /\ pc = "seq"
    /\ files = (SeqDbPath :> EmptyDb) @@ (MainDbPath :> EmptyDb)
    /\ writers = (SeqDbPath :> {}) @@ (MainDbPath :> {})
    /\ InitRun
    /\ zipScan = NoScan

\* --------------------------------------------------------- sequential run
\* DriveProcessingResult
Result(drive, zips, videos, error) ==
    [drive |-> drive, zip_count |-> zips, video_count |-> videos, error |-> error]

\* SequentialDriveProcessor.process_drive / PySearchZips._scan_single_drive
\* on the volume at seqIdx, writing the sequential canonical store.
SeqDrive ==
    /\ pc = "seq"
    /\ seqIdx <= Len(drives)
    /\ LET drive == drives[seqIdx]
           r == ProcessZips(files[SeqDbPath], find_zip_files_for_drive(drive), 1, 0, 0,
                            [run |-> "seq", unit |-> seqIdx])
       IN  /\ files' = WriteFile(files, SeqDbPath, r.db)
           /\ writers' = IF r.db # files[SeqDbPath]
                         THEN NoteWriter(writers, SeqDbPath, Orchestrator) ELSE writers
           /\ IF r.error = "None"
              THEN /\ seqResults' = Append(seqResults, Result(drive, r.zip_count, r.video_count, "None"))
                   /\ seqTotals' = [zips |-> seqTotals.zips + r.zip_count,
                                    videos |-> seqTotals.videos + r.video_count]
                   /\ seqIdx' = seqIdx + 1
                   /\ pc' = pc
              ELSE IF impl = "processor"
              THEN \* except Exception: DriveProcessingResult(drive, 0, 0, t, str(e))
                   /\ seqResults' = Append(seqResults, Result(drive, 0, 0, r.error))
                   /\ seqTotals' = seqTotals
                   /\ seqIdx' = seqIdx + 1
                   /\ pc' = pc
              ELSE \* _scan_single_drive has no handler: the run raises
                   /\ seqResults' = seqResults
                   /\ seqTotals' = seqTotals
                   /\ seqIdx' = seqIdx
                   /\ pc' = "seq_raised"
    /\ UNCHANGED <<fsVars, temp_db_files, workerVars, collected, drive_results,
                   thread_db_files, mIdx, mRow, txn, failures, parTotals, apiVars>>

\* The sequential run has ended (returned or raised); the parallel run over
\* the same content starts on its own canonical store.
SeqEnd ==
    /\ \/ pc = "seq" /\ seqIdx > Len(drives)
       \/ pc = "seq_raised"
    /\ pc' = "submit"
    /\ UNCHANGED <<fsVars, files, writers, seqVars, temp_db_files, workerVars, collected,
                   drive_results, thread_db_files, mIdx, mRow, txn, failures, parTotals, apiVars>>

\* ------------------------------------------------------------------- merge
EntriesOf(src, zip_uuid) ==
    SelectSeq(src.file_contents, LAMBDA e : e.zip_uuid = zip_uuid)

\* Merging one worker store into the canonical store, container by container
\* from row k on: a container whose path or identity the canonical store
\* already holds is rejected as a conflict and reported; the others are
\* inserted as they are, with their entries.
MergeContainer(canon, src, k) ==
    LET row == src.zip_files[k]
    IN  IF UniqueViolated(canon, row.zip_file_path, row.uuid)
        THEN [db |-> canon, rejected |-> << row.zip_file_path >>]
        ELSE [db |-> [zip_files |-> Append(canon.zip_files, row),
                      file_contents |-> canon.file_contents \o EntriesOf(src, row.uuid)],
              rejected |-> << >>]

RECURSIVE MergeRows(_, _, _, _)
MergeRows(canon, src, k, rejected) ==
    IF k > Len(src.zip_files) THEN [db |-> canon, rejected |-> rejected]
    ELSE LET m == MergeContainer(canon, src, k)
         IN  MergeRows(m.db, src, k + 1, rejected \o m.rejected)

\* Every container insert committed by itself, as with no transaction.
StoreFileInTransaction_Autocommit(committed, staged) == staged

\* What the canonical store's file holds while the transaction of one source
\* store is open: the committed content, without the rows staged so far.
StoreFileInTransaction(committed, staged) == committed

MergeStore(canon, src) == MergeRows(canon, src, 1, << >>)

\* merge_databases(paths): every store of paths, in the order given.
RECURSIVE merge_databases(_, _, _, _)
merge_databases(canon, f, paths, rejected) ==
    IF paths = << >> THEN [db |-> canon, rejected |-> rejected]
    ELSE LET m == IF Head(paths) \in DOMAIN f
                  THEN MergeStore(canon, f[Head(paths)])
                  ELSE [db |-> canon, rejected |-> << >>]
         IN  merge_databases(m.db, f, Tail(paths), rejected \o m.rejected)

\* ------------------------------------------------------------ parallel run
Workers == 1..Len(drives)

\* Leaving the with-block as soon as one future was collected.
AllJoined_AnyCollected == \E i \in Workers : i \in collected

\* Leaving the with-block without waiting for any future.
AllJoined_NoWait == TRUE

\* The guard of the merge phase: the with-block of the executor has been left,
\* which waits for every submitted future.
AllJoined == \A i \in Workers : wpc[i] = "done" /\ i \in collected

\* Creating the temporary paths and submitting one job per volume.
\* ThreadPoolExecutor(max_workers=0) raises ValueError.
ParSubmit ==
    /\ pc = "submit"
    /\ IF drives = << >>
       THEN /\ pc' = "raised"
            /\ UNCHANGED <<temp_db_files, workerVars>>
       ELSE /\ pc' = "collect"
            /\ temp_db_files' = [i \in Workers |-> TempDbPath(i, drives[i])]
            /\ wpc' = [i \in Workers |-> "queued"]
            /\ wIdx' = [i \in Workers |-> 1]
            /\ wTot' = [i \in Workers |-> [zips |-> 0, videos |-> 0]]
            /\ wRes' = [i \in Workers |-> [raised |-> FALSE, value |-> [pending |-> TRUE]]]
            /\ wOpen' = [i \in Workers |-> FALSE]
    /\ UNCHANGED <<fsVars, files, writers, seqVars, collected, drive_results,
                   thread_db_files, mIdx, mRow, txn, failures, parTotals, apiVars>>

\* What a worker that ran to its end returns.
WorkerValue(i, zips, videos) ==
    IF impl = "processor" THEN Result(drives[i], zips, videos, "None")
    ELSE [zip_count |-> zips, video_count |-> videos]

\* _process_drive_with_db / _scan_single_drive_threaded up to the loop:
\* DatabaseManager(thread_db_path) creates the worker store, then the volume
\* is enumerated.  With nothing to scan the processor closes the store in its
\* finally; _scan_single_drive_threaded returns before close() when no
\* takeout folder was found and after it when the folder held no archive.
WorkerStart(i) ==
    /\ pc = "collect"
    /\ wpc[i] = "queued"
    /\ LET path == temp_db_files[i]
       IN  /\ files' = IF Exists(path) THEN files ELSE WriteFile(files, path, EmptyDb)
           /\ writers' = NoteWriter(writers, path, i)
    /\ IF find_zip_files_for_drive(drives[i]) = << >>
       THEN /\ wpc' = [wpc EXCEPT ![i] = "done"]
            /\ wRes' = [wRes EXCEPT ![i] = [raised |-> FALSE, value |-> WorkerValue(i, 0, 0)]]
            /\ \E stays \in (IF impl = "processor" THEN {FALSE} ELSE BOOLEAN) :
                   wOpen' = [wOpen EXCEPT ![i] = stays]
       ELSE /\ wpc' = [wpc EXCEPT ![i] = "scan"]
            /\ wOpen' = [wOpen EXCEPT ![i] = TRUE]
            /\ wRes' = wRes
    /\ UNCHANGED <<fsVars, pc, seqVars, temp_db_files, wIdx, wTot, collected, drive_results,
                   thread_db_files, mIdx, mRow, txn, failures, parTotals, apiVars>>

\* One turn of the worker's loop: process_zip_file on its next archive,
\* writing its own store.  After the last archive the worker closes the store
\* and returns.  An exception ends the loop: process_drive turns it into an
\* error result and the finally closes the store; _scan_single_drive_threaded
\* lets it escape into the future, its store left open.
WorkerZip(i) ==
    /\ pc = "collect"
    /\ wpc[i] = "scan"
    /\ LET path == temp_db_files[i]
           zips == find_zip_files_for_drive(drives[i])
           k == wIdx[i]
           r == process_zip_file(files[path], zips[k],
                                 [mgr |-> [run |-> "par", unit |-> i], n |-> k])
           tz == wTot[i].zips + r.zip_count
           tv == wTot[i].videos + r.video_count
       IN  /\ files' = WriteFile(files, path, r.db)
           /\ writers' = IF r.db # files[path] THEN NoteWriter(writers, path, i) ELSE writers
           /\ IF r.error # "None"
              THEN /\ wpc' = [wpc EXCEPT ![i] = "done"]
                   /\ wIdx' = wIdx
                   /\ wTot' = wTot
                   /\ IF impl = "processor"
                      THEN /\ wRes' = [wRes EXCEPT ![i] =
                                  [raised |-> FALSE, value |-> Result(drives[i], 0, 0, r.error)]]
                           /\ wOpen' = [wOpen EXCEPT ![i] = FALSE]
                      ELSE /\ wRes' = [wRes EXCEPT ![i] = [raised |-> TRUE, value |-> r.error]]
                           /\ wOpen' = wOpen
              ELSE /\ wIdx' = [wIdx EXCEPT ![i] = k + 1]
                   /\ wTot' = [wTot EXCEPT ![i] = [zips |-> tz, videos |-> tv]]
                   /\ IF k = Len(zips)
                      THEN /\ wpc' = [wpc EXCEPT ![i] = "done"]
                           /\ wRes' = [wRes EXCEPT ![i] =
                                  [raised |-> FALSE, value |-> WorkerValue(i, tz, tv)]]
                           /\ wOpen' = [wOpen EXCEPT ![i] = FALSE]
                      ELSE UNCHANGED <<wpc, wRes, wOpen>>
    /\ UNCHANGED <<fsVars, pc, seqVars, temp_db_files, collected, drive_results,
                   thread_db_files, mIdx, mRow, txn, failures, parTotals, apiVars>>

\* drive_results[drive] = value
SetResult(res, drive, value) ==
    [d \in DOMAIN res \cup {drive} |-> IF d = drive THEN value ELSE res[d]]

\* One turn of the as_completed loop, for a finished future.
Collect(i) ==
    /\ pc = "collect"
    /\ wpc[i] = "done"
    /\ i \notin collected
    /\ collected' = collected \cup {i}
    /\ IF ~wRes[i].raised
       THEN /\ drive_results' = SetResult(drive_results, drives[i], wRes[i].value)
            /\ thread_db_files' = IF Exists(temp_db_files[i])
                                  THEN Append(thread_db_files, temp_db_files[i])
                                  ELSE thread_db_files
       ELSE /\ drive_results' = SetResult(drive_results, drives[i],
                                    IF impl = "processor"
                                    THEN Result(drives[i], 0, 0, wRes[i].value)
                                    ELSE [zip_count |-> 0, video_count |-> 0])
            /\ thread_db_files' = thread_db_files
    /\ UNCHANGED <<fsVars, files, writers, pc, seqVars, temp_db_files, workerVars,
                   mIdx, mRow, txn, failures, parTotals, apiVars>>

\* Leaving the with-block: the as_completed loop has run out and
\* executor.shutdown(wait=True) has returned.
Join ==
    /\ pc = "collect"
    /\ AllJoined
    /\ pc' = "merge"
    /\ UNCHANGED <<fsVars, files, writers, seqVars, temp_db_files, workerVars, collected,
                   drive_results, thread_db_files, mIdx, mRow, txn, failures, parTotals, apiVars>>

\* The merge of the next container of the worker store being merged, by the
\* orchestrator, inside that store's transaction.
MergeRow ==
    /\ pc = "merge"
    /\ mIdx < Len(thread_db_files)
    /\ LET src == files[thread_db_files[mIdx + 1]]
       IN  /\ mRow <= Len(src.zip_files)
           /\ LET m == MergeContainer(txn, src, mRow)
                  onFile == StoreFileInTransaction(files[MainDbPath], m.db)
              IN  /\ txn' = m.db
                  /\ failures' = failures \o m.rejected
                  /\ files' = WriteFile(files, MainDbPath, onFile)
                  /\ writers' = IF onFile # files[MainDbPath]
                                THEN NoteWriter(writers, MainDbPath, Orchestrator) ELSE writers
    /\ mRow' = mRow + 1
    /\ UNCHANGED <<fsVars, pc, seqVars, temp_db_files, workerVars, collected, drive_results,
                   thread_db_files, mIdx, parTotals, apiVars>>

\* The commit of the transaction of the worker store being merged, once all
\* its containers were handled.
MergeNext ==
    /\ pc = "merge"
    /\ mIdx < Len(thread_db_files)
    /\ mRow > Len(files[thread_db_files[mIdx + 1]].zip_files)
    /\ files' = WriteFile(files, MainDbPath, txn)
    /\ writers' = IF txn # files[MainDbPath]
                  THEN NoteWriter(writers, MainDbPath, Orchestrator) ELSE writers
    /\ mIdx' = mIdx + 1
    /\ mRow' = 1
    /\ UNCHANGED <<fsVars, pc, seqVars, temp_db_files, workerVars, collected, drive_results,
                   thread_db_files, txn, failures, parTotals, apiVars>>

\* A crash or failure while a worker store is being merged: the open
\* transaction is lost and the run does not go on.
MergeCrash ==
    /\ pc = "merge"
    /\ mIdx < Len(thread_db_files)
    /\ pc' = "crashed"
    /\ txn' = files[MainDbPath]
    /\ UNCHANGED <<fsVars, files, writers, seqVars, temp_db_files, workerVars, collected,
                   drive_results, thread_db_files, mIdx, mRow, failures, parTotals, apiVars>>

Succeeded(r) == IF impl = "processor" THEN r.error = "None" ELSE TRUE

RECURSIVE SumResults(_, _, _)
SumResults(res, keys, field) ==
    IF keys = {} THEN 0
    ELSE LET d == CHOOSE x \in keys : TRUE
         IN  (IF Succeeded(res[d]) THEN res[d][field] ELSE 0)
             + SumResults(res, keys \ {d}, field)

Range(s) == { s[k] : k \in 1..Len(s) }

\* The cleanup loop stopping before the last path of the list.
CleanUp_SkipsLast(f, paths) ==
    [p \in DOMAIN f \ { paths[k] : k \in 1..(Len(paths) - 1) } |-> f[p]]

\* for temp_db_path in thread_db_files: os.unlink(temp_db_path)
CleanUp(f, paths) ==
    [p \in DOMAIN f \ Range(paths) |-> f[p]]

\* After merge_databases: os.unlink of every merged worker store, then the
\* totals over drive_results.
Finish ==
    /\ pc = "merge"
    /\ mIdx = Len(thread_db_files)
    /\ files' = CleanUp(files, thread_db_files)
    /\ parTotals' = [zips |-> SumResults(drive_results, DOMAIN drive_results, "zip_count"),
                     videos |-> SumResults(drive_results, DOMAIN drive_results, "video_count")]
    /\ pc' = "done"
    /\ UNCHANGED <<fsVars, writers, seqVars, temp_db_files, workerVars, collected,
                   drive_results, thread_db_files, mIdx, mRow, txn, failures, apiVars>>

Next ==
    \/ SeqDrive
    \/ SeqEnd
    \/ ParSubmit
    \/ \E i \in Workers : WorkerStart(i)
    \/ \E i \in Workers : WorkerZip(i)
    \/ \E i \in Workers : Collect(i)
    \/ Join
    \/ MergeRow
    \/ MergeNext
    \/ MergeCrash
    \/ Finish

Spec == Init /\ [][Next]_vars

\* The orchestrator's thread runs whenever it can: as_completed hands over
\* every finished future, shutdown(wait=True) returns once every worker has
\* ended, and merge, cleanup and the totals follow without waiting for
\* anything.  Nothing is assumed of the workers, nor of a crash.
OrchestratorStep ==
    \/ SeqDrive
    \/ SeqEnd
    \/ ParSubmit
    \/ \E i \in Workers : Collect(i)
    \/ Join
    \/ MergeRow
    \/ MergeNext
    \/ Finish

\* What the orchestrator's own steps change: each of them moves one of these.
orchVars == <<pc, seqIdx, collected, mIdx, mRow>>

\* The runs whose completion is checked: no volume, one, two, and one volume
\* named twice; a volume is empty, holds one good archive, a good archive
\* followed by one that faults, or an invalid one followed by a good one.
LiveDrives == { << >>, << <<"C", ":">> >>, << <<"C", ":">>, <<"/", "m">> >>,
                << <<"C", ":">>, <<"C", ":">> >> }
LiveListings == { << >>, <<"vid">>, <<"vid", "err">>, <<"bad", "mix">> }

InitLive ==
    /\ Init
    /\ drives \in LiveDrives
    /\ \A v \in Volumes : access[v] = "ok" /\ fs[v] \in LiveListings

SpecLive == InitLive /\ [][Next]_vars /\ WF_orchVars(OrchestratorStep)

Yields(drive, name) ==
    scan_zip_for_videos(ZipPath(drive, name), all_files_mode).files # << >>

HasRow(db, zip_path) ==
    \E k \in 1..Len(db.zip_files) : db.zip_files[k].zip_file_path = zip_path

\* --------------------------------------------------------- store interface
\* Direct calls on the stores, as the tests make them: insert_zip_data and
\* process_zip_file on any store, merge_databases of source stores into the
\* canonical store.  The caller keeps the source stores after a merge.
VolC == <<"C", ":">>
VolM == <<"/", "m">>
Source1 == TempDbPath(1, VolC)
Source2 == TempDbPath(2, VolM)
ApiStores == {MainDbPath, Source1, Source2}
ApiZipPaths == {ZipPath(VolC, "vid"), ZipPath(VolM, "vid")}
ApiFileLists ==
    { << >>,
      << [file_name |-> "a", file_size |-> 3] >>,
      << [file_name |-> "a", file_size |-> 3], [file_name |-> "b", file_size |-> 5] >> }

ApiUuid == [mgr |-> [run |-> "api", unit |-> 0], n |-> calls + 1]

RECURSIVE SumSummaries(_, _)
SumSummaries(f, paths) ==
    IF paths = << >> THEN [zip_files |-> 0, video_files |-> 0, total_size |-> 0]
    ELSE LET h == Summary(f[Head(paths)])
             t == SumSummaries(f, Tail(paths))
         IN  [zip_files |-> h.zip_files + t.zip_files,
              video_files |-> h.video_files + t.video_files,
              total_size |-> h.total_size + t.total_size]

RECURSIVE AllRows(_, _)
AllRows(f, paths) ==
    IF paths = << >> THEN << >> ELSE f[Head(paths)].zip_files \o AllRows(f, Tail(paths))

\* No container of the canonical store and of the stores at paths has the path
\* or the identity of another.
MergeDisjoint(canon, f, paths) ==
    LET rows == canon.zip_files \o AllRows(f, paths)
    IN  \A a, b \in 1..Len(rows) :
            a # b => /\ rows[a].zip_file_path # rows[b].zip_file_path
                     /\ rows[a].uuid # rows[b].uuid

\* Every store at paths holds containers, all of them in the canonical store.
AlreadyMerged(canon, f, paths) ==
    \A h \in 1..Len(paths) :
        /\ f[paths[h]].zip_files # << >>
        /\ \A k \in 1..Len(f[paths[h]].zip_files) :
               \E c \in 1..Len(canon.zip_files) : canon.zip_files[c] = f[paths[h]].zip_files[k]

InitApi ==
    /\ drives = << >>
    /\ fs = [v \in Volumes |-> << >>]
    /\ access = [v \in Volumes |-> "ok"]
    /\ impl = "processor"
    /\ all_files_mode = FALSE
    /\ pc = "api"
    /\ files = [p \in ApiStores |-> EmptyDb]
    /\ writers = [p \in ApiStores |-> {}]
    /\ InitRun
    /\ zipScan = NoScan

runVars == <<seqVars, temp_db_files, workerVars, collected, drive_results,
             thread_db_files, mIdx, mRow, txn, failures, parTotals>>

ApiInsert ==
    /\ pc = "api"
    /\ calls < MaxCalls
    /\ \E store \in ApiStores, zip_path \in ApiZipPaths, video_files \in ApiFileLists :
           LET r == insert_zip_data(files[store], zip_path, video_files,
                                    get_drive_letter(zip_path), ApiUuid)
           IN  /\ files' = WriteFile(files, store, r.db)
               /\ lastCall' = [op |-> "insert", store |-> store, zip_path |-> zip_path,
                               video_files |-> video_files, ret |-> r.ret,
                               before |-> Summary(files[store]), after |-> Summary(r.db),
                               unchanged |-> (r.db = files[store]),
                               existed |-> HasRow(files[store], zip_path)]
    /\ calls' = calls + 1
    /\ UNCHANGED <<fsVars, writers, pc, runVars, threadVars>>

ApiProcess ==
    /\ pc = "api"
    /\ calls < MaxCalls
    /\ \E store \in ApiStores, name \in ZipNames :
           LET zip_path == ZipPath(VolC, name)
               scan == scan_zip_for_videos(zip_path, all_files_mode)
               r == process_zip_file(files[store], zip_path, ApiUuid)
           IN  /\ files' = WriteFile(files, store, r.db)
               /\ lastCall' = [op |-> "process", store |-> store, zip_path |-> zip_path,
                               video_files |-> scan.files,
                               ret |-> r.error, counts |-> <<r.zip_count, r.video_count>>,
                               before |-> Summary(files[store]), after |-> Summary(r.db),
                               unchanged |-> (r.db = files[store]),
                               existed |-> HasRow(files[store], zip_path),
                               raised |-> scan.raised]
    /\ calls' = calls + 1
    /\ UNCHANGED <<fsVars, writers, pc, runVars, threadVars>>

ApiMerge ==
    /\ pc = "api"
    /\ calls < MaxCalls
    /\ \E paths \in SeqsUpTo({Source1, Source2}, 2) \ { << >> } :
           LET m == merge_databases(files[MainDbPath], files, paths, << >>)
           IN  /\ files' = WriteFile(files, MainDbPath, m.db)
               /\ lastCall' = [op |-> "merge", store |-> MainDbPath, paths |-> paths,
                               ret |-> IF m.rejected # << >> THEN "ConflictOnMerge" ELSE "ok",
                               rejected |-> m.rejected,
                               before |-> Summary(files[MainDbPath]), after |-> Summary(m.db),
                               unchanged |-> (m.db = files[MainDbPath]),
                               srcTotal |-> SumSummaries(files, paths),
                               disjoint |-> MergeDisjoint(files[MainDbPath], files, paths),
                               remerge |-> AlreadyMerged(files[MainDbPath], files, paths)]
    /\ calls' = calls + 1
    /\ UNCHANGED <<fsVars, writers, pc, runVars, threadVars>>

NextApi ==
    \/ ApiInsert
    \/ ApiProcess
    \/ ApiMerge

SpecApi == InitApi /\ [][NextApi]_vars

\* ------------------------------------------------------------ properties
NumYielding(drive) ==
    Cardinality({ k \in 1..Len(fs[drive]) : Yields(drive, fs[drive][k]) })

Parallel == pc \in {"collect", "merge", "crashed", "done"}

\* C1: when both runs over the same content have ended, the sequential
\* canonical store and the parallel canonical store have the same container
\* count, entry count and total entry byte sum.
C1_SameAggregates ==
    pc = "done" => Summary(files[SeqDbPath]) = Summary(files[MainDbPath])

\* C2: in the parallel run the canonical store is written by the orchestrator
\* only, and only once every worker has finished; no worker is still scanning
\* in the merge phase.
C2_CanonicalWrittenAfterJoin ==
    /\ writers[MainDbPath] \subseteq {Orchestrator}
    /\ pc = "merge" => \A i \in Workers : wpc[i] = "done"
    /\ writers[MainDbPath] # {} =>
           /\ pc \in {"merge", "crashed", "done"}
           /\ \A i \in Workers : wpc[i] = "done"

C2_Witness ==
    /\ pc = "merge"
    /\ Len(drives) = 2
    /\ Len(thread_db_files) = 2
    /\ mIdx = 1
    /\ writers[MainDbPath] = {Orchestrator}

\* C3: in the parallel run every worker's store path differs from every other
\* worker's and from the canonical store paths, also when the list names a
\* volume twice, and a worker store is written by no thread but the worker it
\* was handed to.
C3_PrivateWorkerStores ==
    Parallel =>
        /\ \A i, j \in Workers : i # j => temp_db_files[i] # temp_db_files[j]
        /\ \A i \in Workers : temp_db_files[i] \notin {MainDbPath, SeqDbPath}
        /\ \A p \in DOMAIN writers :
               p.tmp => /\ Cardinality(writers[p]) <= 1
                        /\ \A w \in writers[p] : w \in Workers /\ temp_db_files[w] = p

C3_Witness ==
    /\ pc = "collect"
    /\ Len(drives) = 2
    /\ drives[1] = drives[2]
    /\ \A i \in Workers : /\ temp_db_files[i] \in DOMAIN writers
                          /\ writers[temp_db_files[i]] = {i}
                          /\ files[temp_db_files[i]].zip_files # << >>

AllStoresLive ==
    \A p \in DOMAIN files : \A k \in 1..Len(files[p].zip_files) :
        EntriesOf(files[p], files[p].zip_files[k].uuid) # << >>

\* C4: insert_zip_data with an empty entry list returns None and leaves the
\* store as it was; process_zip_file on a container whose scan yields no
\* matching entry returns (0, 0) and leaves the store as it was; no store
\* holds a container record without an entry record.
C4_NoRecordForEmptyScan ==
    /\ (lastCall.op = "insert" /\ lastCall.video_files = << >>) =>
           (lastCall.ret = "None" /\ lastCall.unchanged)
    /\ (lastCall.op = "process" /\ ~lastCall.raised /\ lastCall.video_files = << >>) =>
           (lastCall.ret = "None" /\ lastCall.counts = <<0, 0>> /\ lastCall.unchanged)
    /\ AllStoresLive

C4_Witness ==
    /\ lastCall.op = "process"
    /\ lastCall.zip_path.name = "txt"
    /\ lastCall.counts = <<0, 0>>
    /\ lastCall.before.zip_files = 1
    /\ Len(files[lastCall.store].zip_files) = 1

GrewBySum ==
    /\ lastCall.after.zip_files = lastCall.before.zip_files + lastCall.srcTotal.zip_files
    /\ lastCall.after.video_files = lastCall.before.video_files + lastCall.srcTotal.video_files

C6_RemergeRejected ==
    (lastCall.op = "merge" /\ lastCall.remerge) =>
        /\ lastCall.ret = "ConflictOnMerge"
        /\ lastCall.after = lastCall.before
        /\ lastCall.unchanged

C6_Witness ==
    /\ lastCall.op = "merge"
    /\ lastCall.remerge
    /\ lastCall.before.zip_files = 1
    /\ lastCall.before.video_files = 2

\* C7: after any sequence of inserts and merges the canonical store holds no
\* two container records with the same volume id and container path.
C7_UniqueContainers ==
    LET rows == files[MainDbPath].zip_files
    IN  \A a, b \in 1..Len(rows) :
            a # b => <<rows[a].drive_letter, rows[a].zip_file_path>>
                         # <<rows[b].drive_letter, rows[b].zip_file_path>>

C7_Witness ==
    /\ pc = "api"
    /\ Len(files[MainDbPath].zip_files) = 2
    /\ lastCall.op # "none"
    /\ lastCall.store = MainDbPath
    /\ lastCall.ret \in {"IntegrityError", "ConflictOnMerge"}

\* C8: insert_zip_data, called directly or by process_zip_file, for a
\* container path the store already records raises the integrity error and
\* leaves the store's counts and rows as they were.
C8_RescanRejected ==
    (/\ lastCall.op \in {"insert", "process"}
     /\ lastCall.existed
     /\ lastCall.video_files # << >>) =>
        /\ lastCall.ret = "IntegrityError"
        /\ lastCall.after = lastCall.before
        /\ lastCall.unchanged

C8_Witness ==
    /\ lastCall.op = "process"
    /\ lastCall.existed
    /\ lastCall.ret = "IntegrityError"
    /\ lastCall.before.video_files = 2

BadButNoFault(drive) ==
    /\ \E k \in 1..Len(fs[drive]) : fs[drive][k] = "bad"
    /\ \A k \in 1..Len(fs[drive]) : fs[drive][k] # "err"

\* C9: a volume that holds an archive of invalid bytes (and none that faults)
\* is processed to its end without an error: the bad archive counts (0, 0)
\* and every archive of the volume that has matching entries is counted and
\* recorded, in the sequential run and in every worker of the parallel run.
C9_BadZipSkipped ==
    /\ \A j \in 1..Len(seqResults) :
           (BadButNoFault(drives[j]) /\ \A h \in 1..(j - 1) : drives[h] # drives[j]) =>
               /\ seqResults[j].error = "None"
               /\ seqResults[j].zip_count = NumYielding(drives[j])
               /\ \A k \in 1..Len(fs[drives[j]]) :
                      Yields(drives[j], fs[drives[j]][k]) =>
                          HasRow(files[SeqDbPath], ZipPath(drives[j], fs[drives[j]][k]))
    /\ Parallel =>
           \A i \in Workers :
               (wpc[i] = "done" /\ BadButNoFault(drives[i])) =>
                   /\ ~wRes[i].raised
                   /\ wRes[i].value.zip_count = NumYielding(drives[i])
                   /\ Exists(temp_db_files[i]) =>
                          \A k \in 1..Len(fs[drives[i]]) :
                              Yields(drives[i], fs[drives[i]][k]) =>
                                  HasRow(files[temp_db_files[i]],
                                         ZipPath(drives[i], fs[drives[i]][k]))

C9_Witness ==
    /\ pc = "collect"
    /\ \E i \in Workers :
           /\ fs[drives[i]] = <<"bad", "vid">>
           /\ wpc[i] = "done"
           /\ wRes[i].value.zip_count = 1
           /\ seqResults[i].zip_count = 1
           /\ HasRow(files[temp_db_files[i]], ZipPath(drives[i], "vid"))

Faulted(i) == \E k \in 1..Len(fs[drives[i]]) : fs[drives[i]][k] = "err"

\* C10: in the parallel run, once the workers are joined, every worker has
\* run to completion and the result held for a volume whose processing
\* faulted carries the volume's id and the error.
C10_FaultRecorded ==
    pc \in {"merge", "done"} =>
        /\ \A i \in Workers : wpc[i] = "done"
        /\ \A i \in Workers :
               Faulted(i) =>
                   /\ drives[i] \in DOMAIN drive_results
                   /\ "error" \in DOMAIN drive_results[drives[i]]
                   /\ drive_results[drives[i]].error # "None"
                   /\ drive_results[drives[i]].drive = drives[i]

\* The worker of the i-th volume ended in a fault.
WorkerFailed(i) ==
    /\ wpc[i] = "done"
    /\ \/ wRes[i].raised
       \/ /\ "error" \in DOMAIN wRes[i].value
          /\ wRes[i].value.error # "None"

\* C11: in the parallel run, once the workers are joined, the store of every
\* worker that faulted after writing container records is in the list handed
\* to merge.
C11_FailedWorkerStoreMerged ==
    pc = "merge" =>
        \A i \in Workers :
            (/\ WorkerFailed(i)
             /\ Exists(temp_db_files[i])
             /\ files[temp_db_files[i]].zip_files # << >>) =>
                temp_db_files[i] \in Range(thread_db_files)

\* C12: when the sequential run has ended, every volume of the list has a
\* result, in list order, and the result of a volume whose processing faulted
\* carries the volume's id and the error.
C12_SeqFaultIsolated ==
    pc \notin {"seq"} =>
        /\ Len(seqResults) = Len(drives)
        /\ \A j \in 1..Len(seqResults) :
               /\ seqResults[j].drive = drives[j]
               /\ Faulted(j) => seqResults[j].error # "None"

\* C13: when both runs have ended, the result held for a volume whose root
\* cannot be listed (missing, or access denied) carries an error, in the
\* sequential run and in the parallel run, and every volume has its result.
C13_VolumeInaccessibleRecorded ==
    pc \in {"merge", "done"} =>
        \A i \in Workers :
            access[drives[i]] # "ok" =>
                /\ i <= Len(seqResults)
                /\ seqResults[i].error # "None"
                /\ drives[i] \in DOMAIN drive_results
                /\ "error" \in DOMAIN drive_results[drives[i]]
                /\ drive_results[drives[i]].error # "None"

\* ------------------------------------------------------------------ search
\* Entry names and search patterns are spelled out, character by character.
SearchChars == {"a", "A", "b", "_"}
SearchNames == SeqsUpTo(SearchChars, MaxName) \ { << >> }
SearchPatterns == SeqsUpTo(SearchChars, MaxName)
SearchSizes == {1, 2}
SearchEntries == [file_name : SearchNames, file_size : SearchSizes]
SearchFileLists == SeqsUpTo(SearchEntries, 2)

\* SQLite's LIKE folds the case of ASCII letters.
Fold(c) == IF c = "A" THEN "a" ELSE c

\* x LIKE p: % stands for any run of characters, _ for any one character,
\* any other character for itself, case folded.
RECURSIVE Like(_, _)
Like(p, x) ==
    IF p = << >> THEN x = << >>
    ELSE IF Head(p) = "%"
    THEN Like(Tail(p), x) \/ (x # << >> /\ Like(p, Tail(x)))
    ELSE /\ x # << >>
         /\ (Head(p) = "_" \/ Fold(Head(p)) = Fold(Head(x)))
         /\ Like(Tail(p), Tail(x))

\* ORDER BY f.file_size DESC
RECURSIVE InsertBySize(_, _)
InsertBySize(row, sorted) ==
    IF sorted = << >> THEN << row >>
    ELSE IF row.file_size > Head(sorted).file_size THEN << row >> \o sorted
    ELSE << Head(sorted) >> \o InsertBySize(row, Tail(sorted))

RECURSIVE OrderBySizeDesc(_)
OrderBySizeDesc(rows) ==
    IF rows = << >> THEN << >>
    ELSE InsertBySize(rows[Len(rows)], OrderBySizeDesc(SubSeq(rows, 1, Len(rows) - 1)))

\* FROM zip_files z JOIN file_contents f ON z.uuid = f.zip_uuid
RECURSIVE JoinRows(_, _)
JoinRows(db, k) ==
    IF k > Len(db.file_contents) THEN << >>
    ELSE LET f == db.file_contents[k]
             zs == SelectSeq(db.zip_files, LAMBDA z : z.uuid = f.zip_uuid)
         IN  [j \in 1..Len(zs) |->
                 [drive_letter |-> zs[j].drive_letter, zip_file_path |-> zs[j].zip_file_path,
                  file_name |-> f.file_name, file_size |-> f.file_size]]
             \o JoinRows(db, k + 1)

\* search_files(pattern) with regex off and no size or type filter:
\* f.file_name LIKE '%' + pattern + '%', ordered by size, largest first.
search_files(db, pattern) ==
    OrderBySizeDesc(SelectSeq(JoinRows(db, 1),
                              LAMBDA r : Like(<<"%">> \o pattern \o <<"%">>, r.file_name)))

InitSearch ==
    /\ drives = << >>
    /\ fs = [v \in Volumes |-> << >>]
    /\ access = [v \in Volumes |-> "ok"]
    /\ impl = "processor"
    /\ all_files_mode = FALSE
    /\ pc = "search"
    /\ InitRun
    /\ zipScan = NoScan
    /\ \E video_files \in SearchFileLists :
           LET zip_path == ZipPath(VolC, "vid")
           IN  files = (MainDbPath :> insert_zip_data(EmptyDb, zip_path, video_files,
                                                      get_drive_letter(zip_path), ApiUuid).db)
    /\ writers = (MainDbPath :> {})

Search ==
    /\ pc = "search"
    /\ \E pattern \in SearchPatterns :
           lastCall' = [op |-> "search", pattern |-> pattern,
                        result |-> search_files(files[MainDbPath], pattern)]
    /\ UNCHANGED <<fsVars, files, writers, pc, runVars, calls, threadVars>>

NextSearch == Search

SpecSearch == InitSearch /\ [][NextSearch]_vars

\* name contains pattern as a substring, the case of letters ignored.
ContainsFold(name, pattern) ==
    \E o \in 0..(Len(name) - Len(pattern)) :
        \A k \in 1..Len(pattern) : Fold(name[o + k]) = Fold(pattern[k])

SortedBySizeDesc(rows) ==
    \A k \in 1..(Len(rows) - 1) : rows[k].file_size >= rows[k + 1].file_size

CountRows(rows, name, size) ==
    Cardinality({ k \in 1..Len(rows) : rows[k].file_name = name /\ rows[k].file_size = size })

\* C14: search_files with a non-empty pattern returns the entries of the
\* store whose name contains the pattern as a case-insensitive substring,
\* each of them once and no other entry, largest size first.
C14_SearchIsSubstring ==
    (lastCall.op = "search" /\ lastCall.pattern # << >>) =>
        /\ SortedBySizeDesc(lastCall.result)
        /\ \A name \in SearchNames, size \in SearchSizes :
               CountRows(lastCall.result, name, size) =
                   IF ContainsFold(name, lastCall.pattern)
                   THEN CountRows(files[MainDbPath].file_contents, name, size)
                   ELSE 0

\* C15: search_files with the empty pattern returns no entry, whatever the
\* store holds.
C15_EmptyPatternMatchesNothing ==
    (lastCall.op = "search" /\ lastCall.pattern = << >>) => lastCall.result = << >>

\* The container records and entry records of src are all in canon.
WhollyIn(canon, src) ==
    /\ \A k \in 1..Len(src.zip_files) :
           \E c \in 1..Len(canon.zip_files) : canon.zip_files[c] = src.zip_files[k]
    /\ \A k \in 1..Len(src.file_contents) :
           \E c \in 1..Len(canon.file_contents) : canon.file_contents[c] = src.file_contents[k]

\* No container record and no entry record of src is in canon.
NowhereIn(canon, src) ==
    /\ \A k \in 1..Len(src.zip_files) :
           \A c \in 1..Len(canon.zip_files) : canon.zip_files[c].uuid # src.zip_files[k].uuid
    /\ \A k \in 1..Len(src.file_contents) :
           \A c \in 1..Len(canon.file_contents) :
               canon.file_contents[c].zip_uuid # src.file_contents[k].zip_uuid

C18_EntryOwnerResolves ==
    \A p \in DOMAIN files :
        \A k \in 1..Len(files[p].file_contents) :
            \E c \in 1..Len(files[p].zip_files) :
                files[p].zip_files[c].uuid = files[p].file_contents[k].zip_uuid

C18_Witness ==
    /\ lastCall.op = "merge"
    /\ Len(files[MainDbPath].zip_files) = 2
    /\ Len(files[MainDbPath].file_contents) >= 3
    /\ files[Source1].file_contents # << >>

\* ------------------------------------------------------------ shared manager
\* One DatabaseManager on the canonical store, constructed by the main
\* thread and called by every thread, as test_04 and test_08 do.  txn is what
\* its connection sees, files what is committed to the store's file.
Creator == Orchestrator

ThreadZipNames == <<"vid", "mix", "txt", "bad", "err">>
ThreadZip(t) == ZipPath(VolC, ThreadZipNames[t + 1])
ThreadFiles ==
    << [file_name |-> <<"a">>, file_size |-> 2], [file_name |-> <<"b">>, file_size |-> 1] >>
ThreadUuid(t) == [mgr |-> [run |-> "threads", unit |-> t], n |-> 1]

\* sqlite3.connect(database_path) leaves check_same_thread on: the connection
\* serves the thread that made it and raises ProgrammingError in any other.
ConnectionUsable(t) == t = Creator

InitThreads ==
    /\ drives = << >>
    /\ fs = [v \in Volumes |-> << >>]
    /\ access = [v \in Volumes |-> "ok"]
    /\ impl = "processor"
    /\ all_files_mode = FALSE
    /\ pc = "threads"
    /\ files = (MainDbPath :> EmptyDb)
    /\ writers = (MainDbPath :> {})
    /\ InitRun
    /\ zipScan = NoScan

threadFrame == <<fsVars, writers, pc, seqVars, temp_db_files, workerVars, collected,
                 drive_results, thread_db_files, mIdx, mRow, failures, parTotals, lastCall>>

\* A statement of insert_zip_data run by thread t falls inside every summary
\* another thread has begun and not ended.
MarkReaders(res, t) ==
    [w \in Threads |->
        IF w # t /\ tpc[w] \in {"sum_zips", "sum_videos"}
        THEN [res[w] EXCEPT !.read.during = TRUE]
        ELSE res[w]]

\* insert_zip_data up to the INSERT of the zip_files row; self.connection.cursor()
\* raises in a thread the connection does not serve.
TInsertRow(t) ==
    /\ pc = "threads"
    /\ calls < MaxCalls
    /\ tpc[t] = "idle"
    /\ tRes[t].insert = "none"
    /\ calls' = calls + 1
    /\ IF ~ConnectionUsable(t)
       THEN /\ tRes' = [tRes EXCEPT ![t].insert = "ProgrammingError"]
            /\ UNCHANGED <<tpc, txn>>
       ELSE IF UniqueViolated(txn, ThreadZip(t), ThreadUuid(t))
       THEN /\ tRes' = [tRes EXCEPT ![t].insert = "IntegrityError"]
            /\ UNCHANGED <<tpc, txn>>
       ELSE /\ txn' = [txn EXCEPT !.zip_files =
                          Append(@, [drive_letter |-> get_drive_letter(ThreadZip(t)),
                                     zip_file_path |-> ThreadZip(t), uuid |-> ThreadUuid(t)])]
            /\ tpc' = [tpc EXCEPT ![t] = "row"]
            /\ tRes' = MarkReaders(tRes, t)
    /\ UNCHANGED <<threadFrame, files>>

\* cursor.executemany of the file_contents rows
TInsertEntries(t) ==
    /\ pc = "threads"
    /\ tpc[t] = "row"
    /\ txn' = [txn EXCEPT !.file_contents = @ \o EntryRows(ThreadUuid(t), ThreadFiles)]
    /\ tpc' = [tpc EXCEPT ![t] = "entries"]
    /\ tRes' = MarkReaders(tRes, t)
    /\ UNCHANGED <<threadFrame, files, calls>>

\* self.connection.commit() and the return of the uuid
TCommit(t) ==
    /\ pc = "threads"
    /\ tpc[t] = "entries"
    /\ files' = WriteFile(files, MainDbPath, txn)
    /\ tpc' = [tpc EXCEPT ![t] = "idle"]
    /\ tRes' = MarkReaders([tRes EXCEPT ![t].insert = "uuid"], t)
    /\ UNCHANGED <<threadFrame, txn, calls>>

\* Some other thread is between the statements of insert_zip_data.
WriterActive(t) == \E w \in Threads : w # t /\ tpc[w] \in {"row", "entries"}

\* get_database_summary by thread t, on a connection of its own that sees
\* what is committed to the store's file: SELECT COUNT(*) FROM zip_files
TSummary(t) ==
    /\ pc = "threads"
    /\ calls < MaxCalls
    /\ tpc[t] = "idle"
    /\ calls' = calls + 1
    /\ tpc' = [tpc EXCEPT ![t] = "sum_zips"]
    /\ tRes' = [tRes EXCEPT ![t].read =
                   [op |-> "summary", error |-> "None", done |-> FALSE,
                    during |-> WriterActive(t),
                    summary |-> [zip_files |-> Len(files[MainDbPath].zip_files),
                                 video_files |-> 0, total_size |-> 0]]]
    /\ UNCHANGED <<threadFrame, files, txn>>

\* get_database_summary: SELECT COUNT(*) FROM file_contents, a statement of
\* its own that sees what is committed by now
TSummaryVideos(t) ==
    /\ pc = "threads"
    /\ tpc[t] = "sum_zips"
    /\ tpc' = [tpc EXCEPT ![t] = "sum_videos"]
    /\ tRes' = [tRes EXCEPT ![t].read.during = @ \/ WriterActive(t),
                            ![t].read.summary.video_files = Len(files[MainDbPath].file_contents)]
    /\ UNCHANGED <<threadFrame, files, txn, calls>>

\* get_database_summary: SELECT SUM(file_size) FROM file_contents, and the
\* return of the counts read
TSummarySize(t) ==
    /\ pc = "threads"
    /\ tpc[t] = "sum_videos"
    /\ tpc' = [tpc EXCEPT ![t] = "idle"]
    /\ tRes' = [tRes EXCEPT ![t].read.during = @ \/ WriterActive(t),
                            ![t].read.done = TRUE,
                            ![t].read.summary.total_size = SumSizes(files[MainDbPath].file_contents)]
    /\ UNCHANGED <<threadFrame, files, txn, calls>>

\* search_files by thread t, on the manager's connection: one SELECT
TSearch(t) ==
    /\ pc = "threads"
    /\ calls < MaxCalls
    /\ tpc[t] = "idle"
    /\ calls' = calls + 1
    /\ \E pattern \in { <<"a">>, <<"b">> } :
           tRes' = [tRes EXCEPT ![t].read =
                       IF ConnectionUsable(t)
                       THEN [op |-> "search", error |-> "None", done |-> TRUE,
                             during |-> WriterActive(t),
                             seen |-> txn, rows |-> search_files(txn, pattern)]
                       ELSE [op |-> "search", error |-> "ProgrammingError", done |-> TRUE,
                             during |-> WriterActive(t)]]
    /\ UNCHANGED <<threadFrame, files, txn, tpc>>

NextThreads ==
    \/ \E t \in Threads : TInsertRow(t)
    \/ \E t \in Threads : TInsertEntries(t)
    \/ \E t \in Threads : TCommit(t)
    \/ \E t \in Threads : TSummary(t)
    \/ \E t \in Threads : TSummaryVideos(t)
    \/ \E t \in Threads : TSummarySize(t)
    \/ \E t \in Threads : TSearch(t)

SpecThreads == InitThreads /\ [][NextThreads]_vars

\* C19: every insert_zip_data call a thread made on the shared manager, each
\* for a container of its own, succeeded, and the store holds that thread's
\* container record with all its entry records.
C19_ConcurrentInsertsSucceed ==
    \A t \in Threads :
        tRes[t].insert # "none" =>
            /\ tRes[t].insert = "uuid"
            /\ HasRow(files[MainDbPath], ThreadZip(t))
            /\ Len(EntriesOf(files[MainDbPath], ThreadUuid(t))) = Len(ThreadFiles)

\* C20: every summary or search a thread made on the shared manager while
\* another thread was inside insert_zip_data completed without an error; the
\* counts a summary returned are those of whole containers (every container
\* counted with all of its entries), and what a search read held every
\* container with all of its entries.
C20_ReadWhileWriting ==
    \A t \in Threads :
        (tRes[t].read.op # "none" /\ tRes[t].read.done /\ tRes[t].read.during) =>
            /\ tRes[t].read.error = "None"
            /\ tRes[t].read.op = "summary" =>
                   /\ tRes[t].read.summary.video_files
                          = Len(ThreadFiles) * tRes[t].read.summary.zip_files
                   /\ tRes[t].read.summary.total_size
                          = SumSizes(ThreadFiles) * tRes[t].read.summary.zip_files
            /\ tRes[t].read.op = "search" =>
                   \A k \in 1..Len(tRes[t].read.seen.zip_files) :
                       Len(EntriesOf(tRes[t].read.seen, tRes[t].read.seen.zip_files[k].uuid))
                           = Len(ThreadFiles)

\* ------------------------------------------------------------- completion
AllWorkersDone == pc = "collect" /\ \A i \in Workers : wpc[i] = "done"

\* The parallel run has ended: it returned, or it failed inside merge.
RunEnded == pc \in {"done", "crashed"}

\* C21: in the parallel run the orchestrator is past the collection of the
\* futures (merging, failed in merge, or returned) only when every worker has
\* finished, and from the moment every worker has finished the run
\* eventually ends.
C21_BlocksUntilWorkersFinish ==
    /\ [](pc \in {"merge", "crashed", "done"} => \A i \in Workers : wpc[i] = "done")
    /\ (AllWorkersDone ~> RunEnded)

C21_Witness ==
    /\ pc = "done"
    /\ Len(drives) = 2
    /\ \A i \in Workers : wpc[i] = "done" /\ wIdx[i] = 3
    /\ mIdx = 2

\* ---------------------------------------------------------- container scan
\* One ZipFileScanner and the calls of scan_zip_for_videos made on it, entry
\* by entry, with the clock that time.time() reads.
HeartbeatInterval == 2
LargeZip == 1000

ScanZipPath == ZipPath(<<"C", ":">>, "vid")

\* The entries a container may list: a directory (whose name ends in "/" and
\* so has no extension), and files with a video extension in lower and in
\* upper case, with another extension and with none.
ScanEntries ==
    { [filename |-> "d", ext |-> "", file_size |-> 0, is_dir |-> TRUE],
      [filename |-> "a", ext |-> ".mp4", file_size |-> 3, is_dir |-> FALSE],
      [filename |-> "b", ext |-> ".MKV", file_size |-> 5, is_dir |-> FALSE],
      [filename |-> "c", ext |-> ".txt", file_size |-> 1, is_dir |-> FALSE],
      [filename |-> "n", ext |-> "", file_size |-> 2, is_dir |-> FALSE] }
ScanInfoLists == SeqsUpTo(ScanEntries, MaxEntries)

\* What zipfile.ZipFile(zip_path, 'r') does: it opens the container, or raises
\* one of the errors scan_zip_for_videos catches, or another exception.
CaughtScanErrors == {"BadZipFile", "PermissionError", "OSError"}
ScanOutcomes == {"ok", "Exception"} \cup CaughtScanErrors

\* f"zip_scan_{zip_path}"
operation_id(zip_path) == [prefix |-> "zip_scan", zip_path |-> zip_path]

\* HeartbeatManager.last_heartbeat, as the set of its items.
Registered(last_heartbeat, op) == \E r \in last_heartbeat : r.op = op
LastBeat(last_heartbeat, op) == (CHOOSE r \in last_heartbeat : r.op = op).at
SetBeat(last_heartbeat, op, t) ==
    { r \in last_heartbeat : r.op # op } \cup { [op |-> op, at |-> t] }

\* should_show_heartbeat answering true on every call after the first.
should_show_heartbeat_EveryCall(last_heartbeat, op, current_time) ==
    [last_heartbeat |-> SetBeat(last_heartbeat, op, current_time),
     ret |-> Registered(last_heartbeat, op)]

\* HeartbeatManager.should_show_heartbeat: the dictionary after the call and
\* what the call returns.
should_show_heartbeat(last_heartbeat, op, current_time) ==
    IF ~Registered(last_heartbeat, op)
    THEN [last_heartbeat |-> SetBeat(last_heartbeat, op, current_time), ret |-> FALSE]
    ELSE IF current_time - LastBeat(last_heartbeat, op) >= HeartbeatInterval
    THEN [last_heartbeat |-> SetBeat(last_heartbeat, op, current_time), ret |-> TRUE]
    ELSE [last_heartbeat |-> last_heartbeat, ret |-> FALSE]

\* HeartbeatManager.reset(operation_id)
reset(last_heartbeat, op) == { r \in last_heartbeat : r.op # op }

\* The container, what opening it does, the mode and whether the caller
\* passes a sink are fixed for a run; a container that cannot be opened
\* lists nothing.
InitScan ==
    /\ drives = << >>
    /\ fs = [v \in Volumes |-> << >>]
    /\ access = [v \in Volumes |-> "ok"]
    /\ impl = "processor"
    /\ all_files_mode \in BOOLEAN
    /\ pc = "scan"
    /\ files = (MainDbPath :> EmptyDb)
    /\ writers = (MainDbPath :> {})
    /\ InitRun
    /\ \E infos \in ScanInfoLists, outcome \in ScanOutcomes, has_sink \in BOOLEAN :
           /\ outcome # "ok" => infos = << >>
           /\ zipScan = [NoScan EXCEPT !.infos = infos, !.outcome = outcome,
                                       !.has_sink = has_sink, !.all_files = all_files_mode]

scanFrame == <<inputVars, files, writers, pc, runVars, lastCall, threadVars>>

\* time.time() moves on.
Tick ==
    /\ pc = "scan"
    /\ zipScan.now < MaxTime
    /\ zipScan' = [zipScan EXCEPT !.now = @ + 1]
    /\ UNCHANGED <<scanFrame, calls>>

\* scan_zip_for_videos up to the loop: zipfile.ZipFile(zip_path, 'r').  A
\* container that cannot be opened ends the call here: a caught error is
\* logged and [] returned, any other exception escapes; the finally resets
\* the heartbeat of the operation.
ScanOpen ==
    /\ pc = "scan"
    /\ zipScan.status \in {"none", "returned", "raised"}
    /\ calls < MaxCalls
    /\ calls' = calls + 1
    /\ LET op == operation_id(ScanZipPath)
           opened == [zipScan EXCEPT !.k = 1,
                                     !.start_time = zipScan.now,
                                     !.target_files = << >>,
                                     !.sink = << >>,
                                     !.seen = [calls |-> 0, first |-> FALSE, mark |-> 0]]
       IN  IF zipScan.outcome = "ok"
           THEN zipScan' = [opened EXCEPT
                               !.status = "loop",
                               !.sink = IF zipScan.has_sink /\ Len(zipScan.infos) > LargeZip
                                        THEN << [kind |-> "large", at |-> zipScan.now] >>
                                        ELSE << >>]
           ELSE zipScan' = [opened EXCEPT
                               !.status = IF zipScan.outcome \in CaughtScanErrors
                                          THEN "returned" ELSE "raised",
                               !.last_heartbeat = reset(@, op)]
    /\ UNCHANGED scanFrame

\* One turn of the loop over zip_file.infolist(): the heartbeat, when a sink
\* was passed in and should_show_heartbeat says so, then the entry is kept
\* when it is no directory and is a target file.  seen notes what the calls
\* of should_show_heartbeat returned: how many were made in this scan, what
\* the first returned, and the time of the first or of the last that
\* returned true; a heartbeat carries the time noted before it.
ScanEntry ==
    /\ pc = "scan"
    /\ zipScan.status = "loop"
    /\ zipScan.k <= Len(zipScan.infos)
    /\ LET op == operation_id(ScanZipPath)
           file_info == zipScan.infos[zipScan.k]
           hb == IF zipScan.has_sink
                 THEN should_show_heartbeat(zipScan.last_heartbeat, op, zipScan.now)
                 ELSE [last_heartbeat |-> zipScan.last_heartbeat, ret |-> FALSE]
       IN  zipScan' = [zipScan EXCEPT
               !.last_heartbeat = hb.last_heartbeat,
               !.seen = IF zipScan.has_sink
                        THEN [calls |-> @.calls + 1,
                              first |-> IF @.calls = 0 THEN hb.ret ELSE @.first,
                              mark |-> IF @.calls = 0 \/ hb.ret THEN zipScan.now ELSE @.mark]
                        ELSE @,
               !.sink = IF hb.ret
                        THEN Append(@, [kind |-> "heartbeat", at |-> zipScan.now,
                                        since |-> zipScan.seen.mark])
                        ELSE @,
               !.target_files =
                   IF ~file_info.is_dir /\ is_target_file(file_info, zipScan.all_files)
                   THEN Append(@, [file_name |-> file_info.filename,
                                   file_size |-> file_info.file_size])
                   ELSE @,
               !.k = @ + 1]
    /\ UNCHANGED <<scanFrame, calls>>

\* After the last entry: the final status to the sink, the finally, and the
\* return of target_files.
ScanReturn ==
    /\ pc = "scan"
    /\ zipScan.status = "loop"
    /\ zipScan.k > Len(zipScan.infos)
    /\ zipScan' = [zipScan EXCEPT
           !.status = "returned",
           !.sink = IF zipScan.has_sink
                    THEN Append(@, [kind |-> IF zipScan.target_files # << >>
                                             THEN "found" ELSE "nothing_found",
                                    at |-> zipScan.now])
                    ELSE @,
           !.last_heartbeat = reset(@, operation_id(ScanZipPath))]
    /\ UNCHANGED <<scanFrame, calls>>

NextScan ==
    \/ Tick
    \/ ScanOpen
    \/ ScanEntry
    \/ ScanReturn

SpecScan == InitScan /\ [][NextScan]_vars

\* C22: when a call of scan_zip_for_videos that was handed a progress sink
\* has returned because the container could not be parsed or read, the sink
\* has received a report of the fault, and the call returned no entry.
C22_FaultReportedToSink ==
    (/\ zipScan.status = "returned"
     /\ zipScan.outcome \in CaughtScanErrors
     /\ zipScan.has_sink) =>
        /\ zipScan.target_files = << >>
        /\ zipScan.sink # << >>

\* The entries the contract names: no directory, and every file when
\* accept-all is set, otherwise the files whose extension, in lower case, is
\* in the extension set; in container order.
Matching(infos, accept_all) ==
    LET kept == SelectSeq(infos, LAMBDA e : /\ ~e.is_dir
                                            /\ (accept_all \/ Lower(e.ext) \in video_extensions))
    IN  [j \in 1..Len(kept) |-> [file_name |-> kept[j].filename, file_size |-> kept[j].file_size]]

\* C23: a call of scan_zip_for_videos on a container it could open returns
\* exactly the container's non-directory entries that satisfy the match
\* predicate, in container order: every non-directory entry when accept-all
\* is set, otherwise the entries whose extension is in the extension set;
\* no directory entry is returned in either case.
C23_ScanReturnsMatching ==
    (zipScan.status = "returned" /\ zipScan.outcome = "ok") =>
        /\ zipScan.target_files = Matching(zipScan.infos, zipScan.all_files)
        /\ \A j \in 1..Len(zipScan.target_files) : zipScan.target_files[j].file_name # "d"

C23_Witness ==
    /\ zipScan.status = "returned"
    /\ zipScan.outcome = "ok"
    /\ zipScan.all_files
    /\ Len(zipScan.infos) = 3
    /\ zipScan.infos[1].is_dir
    /\ zipScan.infos[2].ext = ".txt"
    /\ zipScan.infos[3].ext = ".MKV"
    /\ Len(zipScan.target_files) = 2

Beats == SelectSeq(zipScan.sink, LAMBDA m : m.kind = "heartbeat")

\* C24: in one container scan the heartbeats sent to the sink are at least
\* the interval apart and there are no more of them than whole intervals have
\* passed since the scan began, however many entries were read;
\* should_show_heartbeat returned false on its first call for the operation,
\* and true only when at least the interval had passed since the call that
\* registered the operation or the last call that returned true.
C24_HeartbeatsSpaced ==
    /\ \A j \in 1..(Len(Beats) - 1) : Beats[j + 1].at - Beats[j].at >= HeartbeatInterval
    /\ Len(Beats) * HeartbeatInterval <= zipScan.now - zipScan.start_time
    /\ zipScan.seen.calls > 0 => ~zipScan.seen.first
    /\ \A j \in 1..Len(Beats) : Beats[j].at - Beats[j].since >= HeartbeatInterval

C24_Witness ==
    /\ zipScan.status = "returned"
    /\ Len(zipScan.infos) = 3
    /\ Len(Beats) = 2
    /\ calls = 2

\* ------------------------------------------------- insert_zip_data by steps
\* One DatabaseManager on the canonical store and the calls its owner makes
\* one after the other, statement by statement.  txn is what the manager's
\* connection sees (sqlite3 opens a transaction before the first INSERT and
\* keeps it until commit, rollback or close), files what is committed.
InsertUuid == [mgr |-> [run |-> "insert", unit |-> 0], n |-> calls + 1]

NoInsert ==
    [op |-> "insert_steps", zip_path |-> ZipPath(<<"C", ":">>, "vid"), video_files |-> << >>,
     uuid |-> [mgr |-> [run |-> "insert", unit |-> 0], n |-> 0], ret |-> "none", failed |-> {}]

InitInsert ==
    /\ drives = << >>
    /\ fs = [v \in Volumes |-> << >>]
    /\ access = [v \in Volumes |-> "ok"]
    /\ impl = "processor"
    /\ all_files_mode = FALSE
    /\ pc = "insert_idle"
    /\ files = (MainDbPath :> EmptyDb)
    /\ writers = (MainDbPath :> {})
    /\ seqIdx = 1
    /\ seqResults = << >>
    /\ seqTotals = [zips |-> 0, videos |-> 0]
    /\ temp_db_files = << >>
    /\ wpc = << >>
    /\ wIdx = << >>
    /\ wTot = << >>
    /\ wRes = << >>
    /\ wOpen = << >>
    /\ collected = {}
    /\ drive_results = << >>
    /\ thread_db_files = << >>
    /\ mIdx = 0
    /\ mRow = 1
    /\ txn = EmptyDb
    /\ failures = << >>
    /\ parTotals = [zips |-> 0, videos |-> 0]
    /\ calls = 0
    /\ lastCall = NoInsert
    /\ tpc = [t \in Threads |-> "idle"]
    /\ tRes = [t \in Threads |-> NoResults]
    /\ zipScan = NoScan

insertFrame == <<fsVars, writers, seqVars, temp_db_files, workerVars, collected, drive_results,
                 thread_db_files, mIdx, mRow, failures, parTotals, threadVars>>

\* insert_zip_data up to the INSERT of the zip_files row: None for an empty
\* list; the INSERT raises IntegrityError when the connection already sees
\* the path or the uuid.
InsBegin ==
    /\ pc = "insert_idle"
    /\ calls < MaxCalls
    /\ calls' = calls + 1
    /\ \E zip_path \in ApiZipPaths, video_files \in ApiFileLists :
           LET call == [lastCall EXCEPT !.zip_path = zip_path, !.video_files = video_files,
                                        !.uuid = InsertUuid]
           IN  IF video_files = << >>
               THEN /\ lastCall' = [call EXCEPT !.ret = "None"]
                    /\ UNCHANGED <<pc, txn>>
               ELSE IF UniqueViolated(txn, zip_path, InsertUuid)
               THEN /\ lastCall' = [call EXCEPT !.ret = "IntegrityError",
                                                !.failed = @ \cup {InsertUuid}]
                    /\ UNCHANGED <<pc, txn>>
               ELSE /\ lastCall' = [call EXCEPT !.ret = "none"]
                    /\ txn' = [txn EXCEPT !.zip_files =
                                  Append(@, [drive_letter |-> get_drive_letter(zip_path),
                                             zip_file_path |-> zip_path, uuid |-> InsertUuid])]
                    /\ pc' = "insert_row"
    /\ UNCHANGED <<insertFrame, files>>

\* cursor.executemany of the file_contents rows
InsEntries ==
    /\ pc = "insert_row"
    /\ txn' = [txn EXCEPT !.file_contents =
                  @ \o EntryRows(lastCall.uuid, lastCall.video_files)]
    /\ pc' = "insert_entries"
    /\ UNCHANGED <<insertFrame, files, calls, lastCall>>

\* The call raising after the zip_files row went in: heartbeat_callback
\* raising, or executemany raising at entry j + 1 (a NULL size or name, a
\* store error).  insert_zip_data has no handler and no rollback: the rows
\* inserted so far stay in the connection's open transaction.
InsEntriesFail ==
    /\ pc = "insert_row"
    /\ \E j \in 0..(Len(lastCall.video_files) - 1) :
           txn' = [txn EXCEPT !.file_contents =
                      @ \o EntryRows(lastCall.uuid, SubSeq(lastCall.video_files, 1, j))]
    /\ lastCall' = [lastCall EXCEPT !.ret = "Exception", !.failed = @ \cup {lastCall.uuid}]
    /\ pc' = "insert_idle"
    /\ UNCHANGED <<insertFrame, files, calls>>

\* self.connection.commit() and the return of the uuid: everything the
\* connection's transaction holds is written to the store's file.
InsCommit ==
    /\ pc = "insert_entries"
    /\ files' = WriteFile(files, MainDbPath, txn)
    /\ lastCall' = [lastCall EXCEPT !.ret = "uuid"]
    /\ pc' = "insert_idle"
    /\ UNCHANGED <<insertFrame, txn, calls>>

NextInsert ==
    \/ InsBegin
    \/ InsEntries
    \/ InsEntriesFail
    \/ InsCommit

SpecInsert == InitInsert /\ [][NextInsert]_vars

\* C25: no container row and no entry row of an insert_zip_data call that
\* failed is in the store's file, at any time after the failure, whatever
\* calls were made on the store since.
C25_FailedInsertLeavesNothing ==
    \A u \in lastCall.failed :
        /\ \A k \in 1..Len(files[MainDbPath].zip_files) : files[MainDbPath].zip_files[k].uuid # u
        /\ \A k \in 1..Len(files[MainDbPath].file_contents) :
               files[MainDbPath].file_contents[k].zip_uuid # u

\* C26: when the parallel run has ended (it returned, it raised, or it failed
\* inside merge), no worker store created for the run exists any more: not
\* that of a worker that failed, nor that of a volume without containers.
C26_NoWorkerStoreRemains ==
    pc \in {"done", "crashed", "raised"} =>
        \A i \in 1..Len(temp_db_files) : ~Exists(temp_db_files[i])

\* The containers and entries a store that began empty holds.
Added(db) == [zips |-> Len(db.zip_files), videos |-> Len(db.file_contents)]

\* C27: the totals process_all_drives returned are the numbers of container
\* records and entry records its run added to the canonical store, for the
\* sequential run and for the parallel run, whatever the results of the
\* volumes were.
C27_TotalsMatchStore ==
    impl = "processor" =>
        /\ pc \notin {"seq", "seq_raised"} => seqTotals = Added(files[SeqDbPath])
        /\ pc = "done" => parTotals = Added(files[MainDbPath])

\* ------------------------------------------------------------------ rescan
\* A sequential run over one volume on a canonical store that an earlier run
\* over the same volume filled, the volume's content having changed since.
RescanDrive == <<"C", ":">>

EarlierStore(listing) ==
    ProcessZips(EmptyDb, [k \in 1..Len(listing) |-> ZipPath(RescanDrive, listing[k])],
                1, 0, 0, [run |-> "earlier", unit |-> 1]).db

InitRescan ==
    /\ drives = << RescanDrive >>
    /\ access = [v \in Volumes |-> "ok"]
    /\ fs \in { f \in [Volumes -> Listings] : \A v \in Volumes : v # RescanDrive => f[v] = << >> }
    /\ impl \in {"processor", "app"}
    /\ all_files_mode = FALSE
    /\ pc = "seq"
    /\ \E earlier \in Listings :
           files = (SeqDbPath :> EarlierStore(earlier)) @@ (MainDbPath :> EmptyDb)
    /\ writers = (SeqDbPath :> {}) @@ (MainDbPath :> {})
    /\ InitRun
    /\ zipScan = NoScan

NextRescan == SeqDrive

SpecRescan == InitRescan /\ [][NextRescan]_vars

\* C28: when the scan of a volume has ended and storing one of its
\* containers failed on the way (no archive of the volume faulted in the
\* scanner), every container of the volume that has matching entries is
\* recorded in the store.
C28_ContinuesAfterStoreFailure ==
    (/\ pc = "seq_raised" \/ seqIdx > 1
     /\ \A k \in 1..Len(fs[drives[1]]) : fs[drives[1]][k] # "err") =>
        \A k \in 1..Len(fs[drives[1]]) :
            Yields(drives[1], fs[drives[1]][k]) =>
                HasRow(files[SeqDbPath], ZipPath(drives[1], fs[drives[1]][k]))

\* C29: over an empty volume list the parallel run, like the sequential run
\* before it, ends without an error, merges nothing and returns zero totals.
C29_EmptyListCompletes ==
    (drives = << >> /\ pc \notin {"seq", "submit"}) =>
        /\ seqTotals = [zips |-> 0, videos |-> 0]
        /\ pc = "done"
        /\ mIdx = 0
        /\ files[MainDbPath] = EmptyDb
        /\ parTotals = [zips |-> 0, videos |-> 0]

\* C30: once the merge phase has begun, every worker of the parallel run has
\* closed the connection of its worker store, whichever way it ended.
C30_WorkersCloseBeforeMerge ==
    pc \in {"merge", "crashed", "done"} => \A i \in Workers : ~wOpen[i]

====
